---- MODULE Spec2Model ----
(***************************************************************************)
(* Model of the IPF engine of src/app.py: iterative_proportional_fitting    *)
(* (lines 195-233) and sample_from_table (lines 237-249).                    *)
(*                                                                           *)
(* Numbers.  The code computes in float64.  The model computes in exact     *)
(* rationals <<numerator, denominator>> (denominator > 0, lowest terms), so  *)
(* relative rounding error of the order of 1e-16 is abstracted away; the    *)
(* tolerances the model compares against (1e-6 and 3/4) are far above it.    *)
(* NaN, which the code produces at line 240 for 0/0, is the value NaN.       *)
(***************************************************************************)
EXTENDS Integers, Sequences, FiniteSets

\* ------------------------------------------------------------------ bounds
MaxAxes == 2       \* axes of a fit request
MaxCats == 2       \* categories of one axis
MaxLabels == 3     \* categories of a fit request, all axes together
MaxTarget == 2     \* largest target total of the enumerated requests
MaxIter == 2       \* largest max_iter of the enumerated requests
MaxCells == 4      \* cells of a table handed to the sampler
MaxW == 1          \* largest cell weight of a table handed to the sampler
MaxN == 2          \* largest number of records asked of the sampler
DefaultMaxIter == 500

\* ------------------------------------------------------- exact rationals
Abs(x) == IF x < 0 THEN -x ELSE x

RECURSIVE Gcd(_, _)
Gcd(a, b) == IF b = 0 THEN a ELSE Gcd(b, a % b)

Norm(n, d) ==
  LET s == IF d < 0 THEN -1 ELSE 1
      g == Gcd(Abs(n), Abs(d))
  IN  <<(s * n) \div g, (s * d) \div g>>

Rat(i) == <<i, 1>>
Zero == Rat(0)
One == Rat(1)
RAdd(x, y) == Norm(x[1] * y[2] + y[1] * x[2], x[2] * y[2])
RSub(x, y) == Norm(x[1] * y[2] - y[1] * x[2], x[2] * y[2])
RMul(x, y) == Norm(x[1] * y[1], x[2] * y[2])
RDiv(x, y) == Norm(x[1] * y[2], x[2] * y[1])
RLt(x, y) == x[1] * y[2] < y[1] * x[2]
RLe(x, y) == x[1] * y[2] <= y[1] * x[2]
RAbs(x) == <<Abs(x[1]), x[2]>>
RMax(x, y) == IF RLt(x, y) THEN y ELSE x

RECURSIVE RSum(_, _)
\* the sum of f[c] over the cells c of S
RSum(S, f) ==
  IF S = {} THEN Zero
  ELSE LET c == CHOOSE x \in S : TRUE IN RAdd(f[c], RSum(S \ {c}, f))

RECURSIVE RMaxOf(_)
\* the largest element of a non-empty sequence of rationals
RMaxOf(s) == IF Len(s) = 1 THEN s[1] ELSE RMax(s[1], RMaxOf(Tail(s)))

\* ------------------------------------------------------------ the table
RECURSIVE Cells(_)
\* the multi-indices (0-based, one coordinate per axis) of an array of this shape
Cells(shape) ==
  IF Len(shape) = 0 THEN {<<>>}
  ELSE {<<j>> \o c : j \in 0 .. (shape[1] - 1), c \in Cells(Tail(shape))}

VARIABLES
  target_marginals,  \* per axis (in `categories` order) the sequence of target totals
  max_iter, tol,     \* the arguments of the fit
  table,             \* the contingency table: Cells(shape) -> rational
  it,                \* sweeps started so far (the loop of line 214)
  axis_idx,          \* the axis the inner loop (line 217) is at, 1-based
  ratio,             \* the ratio vector of the last scaling step (line 224)
  max_change,        \* line 215 / 230
  scalings,          \* how often line 229 has run
  categories_values, \* the sampler's labels: per axis <<axis name, label list>>
  n,                 \* the number of records asked of the sampler
  idx,               \* the flat indices drawn at line 241
  rows,              \* the records built so far (line 243 / 248)
  pc                 \* fit: "loop" | "axis" | "check"; sampler: "sample" |
                     \* "decode"; both: "returned" | "raised"

fitVars == <<target_marginals, max_iter, tol, it, axis_idx, ratio,
             max_change, scalings>>
sampleVars == <<categories_values, n, idx, rows>>
vars == <<fitVars, sampleVars, table, pc>>

\* line 206-207
axis_sizes == [a \in 1 .. Len(target_marginals) |-> Len(target_marginals[a])]

\* the table started at zero weight
Zeros(shape) == [c \in Cells(shape) |-> Zero]

\* line 209: np.ones(shape)
Ones(shape) == [c \in Cells(shape) |-> One]

\* line 220: the table summed over every axis but axis a
Current(tbl, shape, a) ==
  [j \in 1 .. shape[a] |-> RSum({c \in Cells(shape) : c[a] = j - 1}, tbl)]

\* Ratio with the quotient upside down
RatioInverted(current, target) ==
  [j \in 1 .. Len(current) |->
     IF current[j] = Zero \/ target[j] = 0 THEN Zero
     ELSE RDiv(current[j], Rat(target[j]))]

\* Ratio as the relative change instead of the quotient
RatioRelative(current, target) ==
  [j \in 1 .. Len(current) |->
     IF current[j] = Zero THEN Zero
     ELSE RDiv(RSub(Rat(target[j]), current[j]), current[j])]

\* line 224: np.where(current == 0, 0, target / current)
Ratio(current, target) ==
  [j \in 1 .. Len(current) |->
     IF current[j] = Zero THEN Zero ELSE RDiv(Rat(target[j]), current[j])]

\* lines 226-229: the ratio broadcast along axis a and multiplied in
Scale(tbl, shape, a, r) ==
  [c \in Cells(shape) |-> RMul(tbl[c], r[c[a] + 1])]

\* line 230: np.nanmax(np.abs(ratio - 1.0)) of a non-empty ratio
Deviation(r) == RMaxOf([j \in 1 .. Len(r) |-> RAbs(RSub(r[j], One))])


\* ------------------------------------------------------- fit requests
TargetValues == (-1) .. MaxTarget
DefaultTol == <<1, 1000000>>
\* the tolerances of the enumerated requests: the default, and a coarse one
Tols == {DefaultTol, <<3, 4>>}

\* the shapes of the enumerated requests
Shapes ==
  {s \in UNION {[1 .. d -> 0 .. MaxCats] : d \in 1 .. MaxAxes} :
     RSum(DOMAIN s, [a \in DOMAIN s |-> Rat(s[a])])[1] <= MaxLabels}

RECURSIVE TargetsFor(_)
TargetsFor(shape) ==
  IF Len(shape) = 0 THEN {<<>>}
  ELSE {<<t>> \o rest : t \in [1 .. shape[1] -> TargetValues],
                        rest \in TargetsFor(Tail(shape))}

\* sex = {Male: 60, Female: 40}, region = {North: 70, South: 30}
Scenario == <<<<60, 40>>, <<70, 30>>>>

\* ---------------------------------------- iterative_proportional_fitting
FitInit ==
  /\ \/ /\ \E s \in Shapes : target_marginals \in TargetsFor(s)
        /\ max_iter \in 0 .. MaxIter
        /\ tol \in Tols
     \/ /\ target_marginals = Scenario
        /\ max_iter = DefaultMaxIter
        /\ tol = DefaultTol
  /\ table = Ones(axis_sizes)
  /\ it = 0
  /\ axis_idx = 1
  /\ ratio = <<>>
  /\ max_change = Zero
  /\ scalings = 0
  /\ pc = "loop"
  /\ categories_values = <<>>
  /\ n = 0
  /\ idx = <<>>
  /\ rows = <<>>

\* LoopGuard off by one
LoopGuardInclusive == it <= max_iter

\* line 214: for it in range(max_iter), then line 215; line 233 when exhausted
LoopGuard == it < max_iter

LoopHead ==
  /\ pc = "loop"
  /\ IF LoopGuard
       THEN /\ it' = it + 1
            /\ max_change' = Zero
            /\ axis_idx' = 1
            /\ pc' = IF Len(target_marginals) = 0 THEN "check" ELSE "axis"
       ELSE /\ pc' = "returned"
            /\ UNCHANGED <<it, max_change, axis_idx>>
  /\ UNCHANGED <<target_marginals, max_iter, tol, table, ratio, scalings,
                 sampleVars>>

\* lines 218-230, one pass of the inner loop's body
ScaleAxis ==
  /\ pc = "axis"
  /\ LET current == Current(table, axis_sizes, axis_idx)
         r == Ratio(current, target_marginals[axis_idx])
     IN  /\ ratio' = r
         /\ table' = Scale(table, axis_sizes, axis_idx, r)
         /\ scalings' = scalings + 1
         /\ IF Len(r) = 0
              \* np.nanmax of a zero-size array raises ValueError
              THEN /\ pc' = "raised"
                   /\ UNCHANGED <<max_change, axis_idx>>
              ELSE /\ max_change' = RMax(max_change, Deviation(r))
                   /\ axis_idx' = axis_idx + 1
                   /\ pc' = IF axis_idx = Len(target_marginals)
                              THEN "check" ELSE "axis"
  /\ UNCHANGED <<target_marginals, max_iter, tol, it, sampleVars>>

\* lines 231-232
SweepCheck ==
  /\ pc = "check"
  /\ pc' = IF RLt(max_change, tol) THEN "returned" ELSE "loop"
  /\ UNCHANGED <<target_marginals, max_iter, tol, table, it, axis_idx, ratio,
                 max_change, scalings, sampleVars>>

Next == LoopHead \/ ScaleAxis \/ SweepCheck

Init == FitInit

Spec == Init /\ [][Next]_vars

\* ------------------------------------------------------ sample_from_table
NaN == <<0, 0>>

RECURSIVE Product(_)
Product(shape) == IF Len(shape) = 0 THEN 1 ELSE shape[1] * Product(Tail(shape))

RECURSIVE RavelIndex(_, _)
\* the position of cell c in table.ravel() (row-major), 0-based
RavelIndex(c, shape) ==
  IF Len(shape) = 0 THEN 0
  ELSE c[1] * Product(Tail(shape)) + RavelIndex(Tail(c), Tail(shape))

\* line 239: table.ravel(), flat[k + 1] being numpy's flat[k]
Ravel(tbl, shape) ==
  [k \in 1 .. Product(shape) |->
     tbl[CHOOSE c \in Cells(shape) : RavelIndex(c, shape) = k - 1]]

\* Probs falling back to the uniform distribution when the weights sum to 0
ProbsGuarded(flat) ==
  LET total == RSum(DOMAIN flat, flat)
  IN  [k \in DOMAIN flat |->
         IF total = Zero THEN <<1, Len(flat)>> ELSE RDiv(flat[k], total)]

\* line 240: flat / flat.sum(); 0 / 0 is nan (a warning, no error).  Cell
\* weights are not negative (line 238), so a zero sum means every cell is 0.
Probs(flat) ==
  LET total == RSum(DOMAIN flat, flat)
  IN  [k \in DOMAIN flat |->
         IF total = Zero THEN NaN ELSE RDiv(flat[k], total)]

\* line 241: what np.random.choice(a, size, p=...) refuses with ValueError
\* (numpy >= 1.21, line 118): an empty population unless size is 0, nan or
\* negative probabilities, probabilities that do not sum to 1
ChoiceRejects(a, size, p) ==
  \/ a <= 0 /\ size # 0
  \/ \E k \in DOMAIN p : p[k] = NaN
  \/ \E k \in DOMAIN p : RLt(p[k], Zero)
  \/ RSum(DOMAIN p, p) # One

RECURSIVE UnravelColumnMajor(_, _)
\* UnravelIndex with the first axis varying fastest (order='F')
UnravelColumnMajor(k, shape) ==
  IF Len(shape) = 0 THEN <<>>
  ELSE <<k % shape[1]>> \o UnravelColumnMajor(k \div shape[1], Tail(shape))

RECURSIVE UnravelIndex(_, _)
\* line 242: np.unravel_index(k, shape), the last axis varying fastest
UnravelIndex(k, shape) ==
  IF Len(shape) = 0 THEN <<>>
  ELSE LET d == Len(shape)
       IN  UnravelIndex(k \div shape[d], SubSeq(shape, 1, d - 1))
             \o <<k % shape[d]>>

\* the shape of an array given as a function on its multi-indices
RECURSIVE ShapeOf(_, _)
ShapeOf(cells, d) ==
  IF d = 0 THEN <<>>
  ELSE ShapeOf(cells, d - 1) \o <<Cardinality({c[d] : c \in cells})>>

AxisName(i) == <<"axis", i>>
\* the label list of axis i with cnt labels
LabelList(i, cnt) == [j \in 1 .. cnt |-> <<"label", i, j - 1>>]
LabelsFor(ls) == [i \in 1 .. Len(ls) |-> <<AxisName(i), LabelList(i, ls[i])>>]

\* the shape of the sampler's table argument
table_shape ==
  IF DOMAIN table = {} THEN <<>>
  ELSE ShapeOf(DOMAIN table, Len(CHOOSE c \in DOMAIN table : TRUE))

\* the shapes of the enumerated tables: every axis non-empty
SampleShapes ==
  {s \in UNION {[1 .. d -> 1 .. MaxCats] : d \in 1 .. MaxAxes} :
     Product(s) <= MaxCells}

\* label structures: the table's own shape, or one that differs from it in one
\* place (one axis with a label more or a label less, an axis more, an axis less)
LabelShapes(shape) ==
  {shape}
    \cup {[shape EXCEPT ![a] = shape[a] + 1] : a \in 1 .. Len(shape)}
    \cup {[shape EXCEPT ![a] = shape[a] - 1] : a \in 1 .. Len(shape)}
    \cup {Append(shape, 1), SubSeq(shape, 1, Len(shape) - 1)}

SampleInit ==
  /\ \E s \in SampleShapes :
       /\ table \in [Cells(s) -> {Rat(w) : w \in 0 .. MaxW}]
       /\ \E ls \in LabelShapes(s) : categories_values = LabelsFor(ls)
  /\ n \in 0 .. MaxN
  /\ idx = <<>>
  /\ rows = <<>>
  /\ pc = "sample"
  /\ target_marginals = <<>>
  /\ max_iter = 0
  /\ tol = DefaultTol
  /\ it = 0
  /\ axis_idx = 1
  /\ ratio = <<>>
  /\ max_change = Zero
  /\ scalings = 0

\* lines 239-241: flatten, normalise, draw n flat indices (0-based) with replacement
Choice ==
  /\ pc = "sample"
  /\ LET flat == Ravel(table, table_shape)
         probs == Probs(flat)
     IN  IF ChoiceRejects(Len(flat), n, probs)
           THEN /\ pc' = "raised"
                /\ idx' = idx
           ELSE /\ idx' \in [1 .. n -> {k - 1 : k \in {j \in DOMAIN probs :
                                                        RLt(Zero, probs[j])}}]
                /\ pc' = "decode"
  /\ UNCHANGED <<fitVars, table, categories_values, n, rows>>

\* lines 244-248: the record of the next drawn index; t[i] or the label lookup
\* raises IndexError when the labels do not fit the multi-index
DecodeRow ==
  /\ pc = "decode"
  /\ Len(rows) < Len(idx)
  /\ LET t == UnravelIndex(idx[Len(rows) + 1], table_shape)
         fits == \A i \in 1 .. Len(categories_values) :
                    /\ i <= Len(t)
                    /\ t[i] < Len(categories_values[i][2])
     IN  IF fits
           THEN /\ rows' = Append(rows,
                     [ax \in {categories_values[i][1] :
                                i \in 1 .. Len(categories_values)} |->
                        LET i == CHOOSE j \in 1 .. Len(categories_values) :
                                   categories_values[j][1] = ax
                        IN  categories_values[i][2][t[i] + 1]])
                /\ pc' = pc
           ELSE /\ rows' = <<>>
                /\ pc' = "raised"
  /\ UNCHANGED <<fitVars, table, categories_values, n, idx>>

\* line 249
ReturnRows ==
  /\ pc = "decode"
  /\ Len(rows) = Len(idx)
  /\ pc' = "returned"
  /\ UNCHANGED <<fitVars, sampleVars, table>>

SampleNext == Choice \/ DecodeRow \/ ReturnRows

SampleSpec == SampleInit /\ [][SampleNext]_vars

\* ------------------------------------------------------------ the claims
Axes == 1 .. Len(target_marginals)
NonEmptyAxes == \A a \in Axes : Len(target_marginals[a]) > 0
NoNegativeTarget ==
  \A a \in Axes : \A j \in 1 .. Len(target_marginals[a]) : target_marginals[a][j] >= 0
ValidInput == NonEmptyAxes /\ NoNegativeTarget

\* the table's total for category j of axis a, summed over all other axes
Projection(a, j) == RSum({c \in DOMAIN table : c[a] = j - 1}, table)

\* every projection of the table is within eps of its target total
MarginalsWithin(eps) ==
  \A a \in Axes : \A j \in 1 .. Len(target_marginals[a]) :
    RLe(RAbs(RSub(Projection(a, j), Rat(target_marginals[a][j]))), eps)

\* the fit left its loop through the break of line 232
Converged == pc = "returned" /\ it >= 1 /\ RLt(max_change, tol)

\* C1: for every valid input on which the fit stops by convergence, every
\* projection of the returned table is within tol of its target total.
C1_MarginalConsistency == (ValidInput /\ Converged) => MarginalsWithin(tol)

\* C2: for any user-supplied marginals the returned table preserves the
\* marginals (to tolerance) on every axis; stated for valid marginals and a
\* fit that ran at least one sweep.
C2_MarginalsPreserved ==
  (ValidInput /\ pc = "returned" /\ it >= 1) => MarginalsWithin(tol)

\* C3: fitting sex = {60, 40}, region = {70, 30} with the default max_iter and
\* tol returns a 2x2 table whose sums over region are [60, 40] and whose sums
\* over sex are [70, 30], each within 1e-6.
C3_Scenario ==
  (target_marginals = Scenario /\ max_iter = DefaultMaxIter /\ tol = DefaultTol
     /\ pc = "returned")
  => /\ DOMAIN table = Cells(<<2, 2>>)
     /\ LET near(x, v) == RLe(RAbs(RSub(x, Rat(v))), <<1, 1000000>>)
        IN  /\ near(RAdd(table[<<0, 0>>], table[<<0, 1>>]), 60)
            /\ near(RAdd(table[<<1, 0>>], table[<<1, 1>>]), 40)
            /\ near(RAdd(table[<<0, 0>>], table[<<1, 0>>]), 70)
            /\ near(RAdd(table[<<0, 1>>], table[<<1, 1>>]), 30)

C3_Witness ==
  /\ target_marginals = Scenario /\ max_iter = DefaultMaxIter /\ tol = DefaultTol
  /\ pc = "returned" /\ it = 2 /\ scalings = 4
  /\ table[<<0, 0>>] = Rat(42)

\* the progress of a fit: sweeps started, then the place within the sweep
Progress ==
  LET L == Len(target_marginals)
      place == CASE pc = "axis" -> axis_idx
                 [] pc = "check" -> L + 1
                 [] pc = "loop" -> L + 2
                 [] OTHER -> L + 3
  IN  it * (L + 3) + place

\* the fit is at a line whose step can run: the guards of LoopHead, ScaleAxis
\* and SweepCheck
CanStep ==
  \/ pc = "loop"
  \/ pc = "axis" /\ axis_idx \in Axes
  \/ pc = "check"

\* C4: with non-empty axes the fit starts at most max_iter sweeps and raises
\* no error; until it has returned it can take a step, and every step takes
\* it further along a bounded course, so it returns - also when the deviation
\* never falls below tol.
C4_BoundedTermination ==
  /\ [](NonEmptyAxes =>
          /\ it <= max_iter
          /\ pc # "raised"
          /\ Progress <= (max_iter + 1) * (Len(target_marginals) + 3)
          /\ pc = "returned" \/ CanStep)
  /\ [][NonEmptyAxes => Progress' > Progress]_vars

\* a fit that used all its sweeps without converging, and returned
C4_Witness ==
  /\ NonEmptyAxes /\ pc = "returned"
  /\ max_iter >= 1 /\ it = max_iter /\ ~RLt(max_change, tol)

\* C5: when a target total is negative or an axis has no category, the fit
\* rejects the input before any table cell is multiplied by a ratio.
C5_InvalidRejected ==
  ~ValidInput => (scalings = 0 \/ DOMAIN table = {})

\* C8: for target totals that are all >= 0, every cell of the table is >= 0
\* in every state of the fit.
C8_Positivity ==
  NoNegativeTarget => \A c \in DOMAIN table : RLe(Zero, table[c])

\* a returned table, scaled on two axes, with a zero cell and a positive cell
C8_Witness ==
  /\ NoNegativeTarget /\ pc = "returned" /\ scalings >= 2
  /\ \E c \in DOMAIN table : table[c] = Zero
  /\ \E c \in DOMAIN table : RLt(Zero, table[c])

\* a scaling step on an axis that has exactly one category
SingleCategoryStep == pc = "axis" /\ Len(target_marginals[axis_idx]) = 1

\* C10 as claimed: a scaling step on a single-category axis has ratio 1,
\* leaves the table unchanged and raises no error.
C10_NoOp ==
  [][SingleCategoryStep =>
       (ratio' = <<One>> /\ table' = table /\ pc' # "raised")]_vars

\* C10 as amended: a scaling step on a single-category axis multiplies every
\* cell by one and the same ratio, target total / table total (0 when the
\* table total is 0), and raises no error.
C10_UniformScaling ==
  [][SingleCategoryStep =>
       LET total == RSum(DOMAIN table, table)
           f == IF total = Zero THEN Zero
                ELSE RDiv(Rat(target_marginals[axis_idx][1]), total)
       IN  /\ ratio' = <<f>>
           /\ DOMAIN table' = DOMAIN table
           /\ \A c \in DOMAIN table : table'[c] = RMul(table[c], f)
           /\ pc' # "raised"]_vars

\* the step on a single-category axis has just run, with a ratio other than 1
C10_Witness ==
  /\ pc \in {"axis", "check"} /\ scalings >= 1 /\ axis_idx >= 2
  /\ Len(target_marginals) >= 2
  /\ Len(target_marginals[axis_idx - 1]) = 1
  /\ Len(ratio) = 1 /\ ratio[1] # One /\ ratio[1] # Zero

\* ---- sampler
LabelsMismatch ==
  \/ Len(categories_values) # Len(table_shape)
  \/ \E i \in 1 .. Len(categories_values) :
       i <= Len(table_shape) /\ Len(categories_values[i][2]) # table_shape[i]

AllZero == \A c \in DOMAIN table : table[c] = Zero

\* C6: for labels whose axis count or per-axis label count differs from the
\* table's shape, the sampler never returns records.
C6_MismatchRejected == LabelsMismatch => ~(pc = "returned" /\ Len(rows) > 0)

\* C7: for a table whose cells are all 0 the sampler reports an error for
\* every n >= 0: it draws nothing, builds no record and never returns.
C7_Degenerate ==
  AllZero =>
     (pc \in {"sample", "raised"} /\ idx = <<>> /\ rows = <<>>)

\* the error reported for n = 0
C7_Witness == pc = "raised" /\ AllZero /\ n = 0 /\ ~LabelsMismatch

\* C9: for a table of positive total weight and labels matching its shape the
\* sampler returns n records in draw order; record r has one entry per axis,
\* the label at the coordinates of the cell whose row-major position is idx[r].
C9_Decoding ==
  (pc = "returned" /\ categories_values # <<>> /\ ~LabelsMismatch /\ ~AllZero) =>
     /\ Len(rows) = n
     /\ Len(idx) = n
     /\ \A r \in 1 .. n :
          /\ DOMAIN rows[r] = {AxisName(i) : i \in 1 .. Len(table_shape)}
          /\ \E c \in DOMAIN table :
               /\ RavelIndex(c, table_shape) = idx[r]
               /\ RLt(Zero, table[c])
               /\ \A i \in 1 .. Len(table_shape) :
                    rows[r][AxisName(i)] = categories_values[i][2][c[i] + 1]

\* two different records decoded from a table with two axes of two categories
C9_Witness ==
  /\ pc = "returned" /\ ~LabelsMismatch /\ table_shape = <<2, 2>>
  /\ n = 2 /\ Len(rows) = 2 /\ idx = <<1, 2>>
  /\ rows[1][AxisName(1)] # rows[2][AxisName(1)]
  /\ rows[1][AxisName(2)] # rows[2][AxisName(2)]
====
